---------------------------- MODULE Spec2Model ----------------------------
(***************************************************************************)
(* The two programs of the trip-advisor example.                           *)
(*                                                                         *)
(* The supervisor graph: a supervisor node routes between two worker       *)
(* nodes (researcher, tripadvisorApi), each a prebuilt ReAct agent with    *)
(* one tool, over the shared AgentState {messages, next}.                  *)
(*                                                                         *)
(* The single-agent graph (intro): an agent node that calls the model      *)
(* with both tools bound, and a tools node, over MessagesAnnotation.       *)
(*                                                                         *)
(* The graph executor, the ReAct agent loop and the tool node are the      *)
(* framework's; they appear here as the source configures them: the edges  *)
(* it adds, the step budget it passes, the tools it binds.                 *)
(***************************************************************************)
EXTENDS Integers, Sequences, FiniteSets, TLC

VARIABLES
    messages,    \* AgentState.messages, the shared log
    next,        \* AgentState.next
    node,        \* the node the executor runs next ("none": no node is due)
    status,      \* "running", "done", or the error the caller receives
    step,        \* node invocations (supersteps) of the outer graph so far
    inner,       \* messages the running worker's inner agent has added
    innerPc,     \* the inner agent's position: "idle", "agent", "tools", "return"
    innerStep,   \* supersteps of the running worker's inner agent
    visited,     \* history: the nodes invoked, in order
    decisions,   \* history: the `next` values the supervisor produced, in order
    llm,         \* history: outcome of the latest LLM invocation
    requests,    \* outbound requests get_location_info issued for the running worker
    logged,      \* errors get_location_info logged for the running worker
    transport,   \* history: how the location API's requests of the run went
    lastCalls,   \* the tool calls of the tools step just run: input and response
    updates      \* history: the updates the nodes returned, in order

vars == <<messages, next, node, status, step, inner, innerPc, innerStep,
          visited, decisions, llm, requests, logged, transport, lastCalls,
          updates>>

\* The single-agent graph.
VARIABLES
    imessages,   \* MessagesAnnotation.messages
    ipc,         \* the node the executor runs next: "agent", "tools", "end"
    istatus,     \* "running", "done", or the error the caller receives
    istep,       \* supersteps so far
    icalls,      \* the tool calls of the tools step just run
    irequests,   \* outbound requests of get_location_info in that tools step
    ivisited     \* history: the nodes invoked, in order

ivars == <<imessages, ipc, istatus, istep, icalls, irequests, ivisited>>

\* The `next` channel on its own, under a sequence of writes.
VARIABLES
    chan,        \* the value the channel holds
    writes       \* history: the values written, in order

cvars == <<chan, writes>>

allvars == <<vars, ivars, cvars>>

---------------------------------------------------------------------------
(* Bounds *)

\* The step budget. The script passes 100 (graph.stream(..., {recursionLimit:
\* 100})); the model runs the same executor with a small budget.
recursionLimit == 5

\* Most tool calls one AI message of a worker's inner agent carries; the
\* tools step runs all of them.
MaxCalls == 1

\* Most writes to the `next` channel taken on its own.
MaxWrites == 4

---------------------------------------------------------------------------
(* Names *)

END == "__end__"

members == {"researcher", "tripadvisorApi"}

options == {END} \cup members

\* The nodes added to the graph.
Nodes == members \cup {"supervisor"}

\* What the route tool call of the LLM can carry in `next`: the function
\* schema names the three options, and the prompt asks for "FINISH"; nothing
\* in the chain validates the parsed arguments.
RouteOutputs == options \cup {"FINISH"}

Absent == "absent"

Contents == {"a1", "a2"}

Last(s) == s[Len(s)]

IsPrefix(s, t) == Len(s) <= Len(t) /\ SubSeq(t, 1, Len(s)) = s

HumanMessage(content, name) ==
    [type |-> "human", name |-> name, content |-> content, tool_calls |-> 0]

AIMessage(content, calls) ==
    [type |-> "ai", name |-> "", content |-> content, tool_calls |-> calls]

ToolMessage(content) ==
    [type |-> "tool", name |-> "", content |-> content, tool_calls |-> 0]

\* The input of graph.stream.
Seed == <<HumanMessage("q", "")>>

---------------------------------------------------------------------------
(* AgentState: the two reducers *)

\* A reducer that keeps only the update.
messagesReducerOverwrite(x, y) == y

messagesReducer(x, y) == x \o y

\* A reducer that keeps the first value written.
nextReducerFirstWins(x, y) ==
    IF x # Absent THEN x ELSE IF y # Absent THEN y ELSE END

nextReducer(x, y) ==
    IF y # Absent THEN y ELSE IF x # Absent THEN x ELSE END

nextDefault == END

\* A merge that loses the update's messages.
MergeMessagesDrop(x, update) == x

\* A merge that ignores what is written to `next`.
MergeNextKeep(x, update) == x

\* Merging a node's partial update: a channel is written only when the
\* update carries its key.
MergeMessages(x, update) ==
    IF "messages" \in DOMAIN update THEN messagesReducer(x, update.messages) ELSE x

MergeNext(x, update) ==
    IF "next" \in DOMAIN update THEN nextReducer(x, update.next) ELSE x


---------------------------------------------------------------------------
(* The LLM boundary *)

\* What one LLM invocation of the supervisor chain can give: a failure
\* (timeout, auth, quota), or the parsed `route` tool call.
SupervisorLLM == {"fail"} \cup RouteOutputs

\* What one LLM invocation of a worker's inner agent can give: a failure, a
\* request for 1..MaxCalls tool calls, or a final answer.
LLMFailure == [type |-> "fail", name |-> "", content |-> "", tool_calls |-> 0]

AgentLLM ==
    {LLMFailure}
        \cup {AIMessage("", k) : k \in 1..MaxCalls}
        \cup {AIMessage(c, 0) : c \in Contents}

---------------------------------------------------------------------------
(* The tools *)

\* A body that logs the failure and throws it again.
getLocationInfoRethrow(response) ==
    IF response = "ok"
    THEN [returned |-> "payload", thrown |-> FALSE, requests |-> 1, logs |-> 0]
    ELSE [returned |-> "{}", thrown |-> TRUE, requests |-> 1, logs |-> 1]

\* A body that tries a failed request once more.
getLocationInfoRetry(response) ==
    IF response = "ok"
    THEN [returned |-> "payload", thrown |-> FALSE, requests |-> 1, logs |-> 0]
    ELSE [returned |-> "{}", thrown |-> FALSE, requests |-> 2, logs |-> 1]

\* The body of get_location_info: one axios.request; the payload on success,
\* {} and a logged error on any failure. Nothing is rethrown.
getLocationInfo(response) ==
    IF response = "ok"
    THEN [returned |-> "payload", thrown |-> FALSE, requests |-> 1, logs |-> 0]
    ELSE [returned |-> "{}", thrown |-> FALSE, requests |-> 1, logs |-> 1]

\* What the LLM can put in the parameter record of a tool call as its
\* identifier: nothing, a value that is no string, the empty string, an id.
Inputs == {"missing", "number", "", "229968"}

\* The declared schema, z.object({locationId: z.string()}): the identifier
\* has to be there and be a string; any string passes.
schema(input) == input \notin {"missing", "number"}

\* One tool call: its input and, when the body runs, how the transport
\* answers its request.
ToolCalls ==
    {[input |-> i, response |-> r] :
        i \in {x \in Inputs : schema(x)}, r \in {"ok", "fail"}}
    \cup {[input |-> i, response |-> "none"] : i \in {x \in Inputs : ~schema(x)}}

\* One tool call as the tool node runs it: the declared schema is checked
\* first and the body runs only on input that passes; an error of the call
\* becomes the content of its tool message.
getLocationInfoTool(call) ==
    IF ~schema(call.input)
    THEN [returned |-> "Error", thrown |-> FALSE, requests |-> 0, logs |-> 0]
    ELSE LET r == getLocationInfo(call.response)
         IN  [r EXCEPT !.returned = IF r.thrown THEN "Error" ELSE r.returned]

\* The search tool of the researcher; it touches neither counter of the
\* location API.
tavilyTool(call) ==
    IF call.response = "ok"
    THEN [returned |-> "results", thrown |-> FALSE, requests |-> 0, logs |-> 0]
    ELSE IF call.response = "fail"
    THEN [returned |-> "Error: search", thrown |-> FALSE, requests |-> 0, logs |-> 0]
    ELSE [returned |-> "Error", thrown |-> FALSE, requests |-> 0, logs |-> 0]

\* The calls a worker's LLM can make of its tool. The search tool takes a
\* query; one input that passes its schema and one that does not are told
\* apart.
ToolCallsOf(w) ==
    IF w = "tripadvisorApi" THEN ToolCalls
    ELSE {c \in ToolCalls : c.input \in {"missing", "229968"}}

ToolOf(w, call) ==
    IF w = "tripadvisorApi" THEN getLocationInfoTool(call) ELSE tavilyTool(call)

\* The summary of the run's transport outcomes after one more.
Transport(seen, outcome) ==
    IF seen = "none" \/ seen = outcome THEN outcome ELSE "mixed"

RECURSIVE TransportAfter(_, _, _, _)
TransportAfter(seen, w, calls, k) ==
    IF k = 0 THEN seen
    ELSE LET before == TransportAfter(seen, w, calls, k - 1)
         IN  IF ToolOf(w, calls[k]).requests = 0 THEN before
             ELSE Transport(before, calls[k].response)

RECURSIVE SumRequests(_, _, _)
SumRequests(w, calls, k) ==
    IF k = 0 THEN 0 ELSE ToolOf(w, calls[k]).requests + SumRequests(w, calls, k - 1)

RECURSIVE SumLogs(_, _, _)
SumLogs(w, calls, k) ==
    IF k = 0 THEN 0 ELSE ToolOf(w, calls[k]).logs + SumLogs(w, calls, k - 1)

\* The tool messages of one tools step, one per tool call, in call order.
ToolMessages(w, calls) ==
    [i \in DOMAIN calls |-> ToolMessage(ToolOf(w, calls[i]).returned)]

---------------------------------------------------------------------------
(* The nodes *)

\* A chain whose output also carries a message of its own.
supervisorChainEcho(out) ==
    IF out = "fail"
    THEN [thrown |-> TRUE]
    ELSE [thrown |-> FALSE,
          update |-> [next |-> out, messages |-> <<HumanMessage(out, "supervisor")>>]]

\* A chain that swallows a failed LLM invocation and finishes the run.
supervisorChainSwallow(out) ==
    IF out = "fail"
    THEN [thrown |-> FALSE, update |-> [next |-> END]]
    ELSE [thrown |-> FALSE, update |-> [next |-> out]]

\* supervisorChain: prompt | llm.bindTools([routingTool]) | parser | x[0].args.
\* A failed LLM invocation throws; otherwise the arguments of the first tool
\* call are the node's update, as parsed.
supervisorChain(out) ==
    IF out = "fail"
    THEN [thrown |-> TRUE]
    ELSE [thrown |-> FALSE, update |-> [next |-> out]]

\* A node that hands back every message of the inner agent.
researcherNodeAll(result) ==
    [messages |-> [i \in 1..(Len(result) - 1) |->
                     HumanMessage(result[i + 1].content, "Researcher")]]

\* researcherNode, after researcherAgent.invoke returned `result` (its
\* messages: the state's followed by the inner agent's own).
researcherNode(result) ==
    LET lastMessage == result[Len(result)]
    IN  [messages |-> <<HumanMessage(lastMessage.content, "Researcher")>>]

\* A worker node that also routes: its update carries `next`.
tripadvisorApiNodeRoute(result) ==
    LET lastMessage == result[Len(result)]
    IN  [messages |-> <<HumanMessage(lastMessage.content, "TripadvisorAPI")>>,
         next |-> END]

\* tripadvisorApiNode, after tripadvisorApiAgent.invoke returned `result`.
tripadvisorApiNode(result) ==
    LET lastMessage == result[Len(result)]
    IN  [messages |-> <<HumanMessage(lastMessage.content, "TripadvisorAPI")>>]

NodeOf(w, result) ==
    IF w = "researcher" THEN researcherNode(result) ELSE tripadvisorApiNode(result)

---------------------------------------------------------------------------
(* The graph *)

\* A conditional edge that sends a finished supervisor round again.
conditionalEdgeLoop(x) == IF x = END THEN "supervisor" ELSE x

\* addConditionalEdges("supervisor", x => x.next)
conditionalEdge(x) == x

\* A worker edge that hands over to the other worker.
workerEdgeChain(member) ==
    IF member = "researcher" THEN "tripadvisorApi" ELSE "supervisor"

\* members.forEach(member => addEdge(member, "supervisor"))
workerEdge(member) == "supervisor"

\* An entry edge that starts with a worker.
startEdgeWorker == "researcher"

\* addEdge(START, "supervisor")
startEdge == "supervisor"

\* A budget check that is off by one.
OutOfStepsLate(s) == s >= recursionLimit + 1

\* The step budget: no node is started once `s` supersteps have run.
OutOfSteps(s) == s >= recursionLimit


---------------------------------------------------------------------------
(* The run *)

introStartEdge == "agent"

IntroInit ==
    /\ imessages = Seed
    /\ ipc = introStartEdge
    /\ istatus = "running"
    /\ istep = 0
    /\ icalls = <<>>
    /\ irequests = 0
    /\ ivisited = <<>>

\* The channel before any write: its default.
ChannelInit ==
    /\ chan = nextDefault
    /\ writes = <<>>

\* The supervisor graph before graph.stream runs its first node.
SupervisorInit ==
    /\ updates = <<>>
    /\ messages = Seed
    /\ next = nextDefault
    /\ node = startEdge
    /\ status = "running"
    /\ step = 0
    /\ inner = <<>>
    /\ innerPc = "idle"
    /\ innerStep = 0
    /\ visited = <<>>
    /\ decisions = <<>>
    /\ llm = "none"
    /\ requests = 0
    /\ logged = 0
    /\ transport = "none"
    /\ lastCalls = <<>>

Init ==
    /\ IntroInit
    /\ ChannelInit
    /\ SupervisorInit

\* One superstep of the supervisor node: the chain runs, its update is
\* merged, the conditional edge names the destination, and the executor
\* either ends the run, schedules the worker, or gives up on the budget.
\* A destination that is no node of the graph is where builds differ: the
\* write is dropped and the run ends with no error, or the write is refused
\* and the superstep fails with nothing merged.
Supervisor ==
    /\ UNCHANGED <<ivars, cvars>>
    /\ status = "running"
    /\ node = "supervisor"
    /\ \E out \in SupervisorLLM :
         LET r == supervisorChain(out) IN
         /\ visited' = Append(visited, "supervisor")
         /\ llm' = IF out = "fail" THEN "fail" ELSE "ok"
         /\ IF r.thrown
            THEN /\ status' = "LLMError"
                 /\ UNCHANGED <<messages, next, node, step, decisions, updates>>
            ELSE LET nxt == MergeNext(next, r.update)
                     dest == conditionalEdge(nxt)
                 IN  /\ decisions' = Append(decisions, r.update.next)
                     /\ updates' = Append(updates, r.update)
                     /\ IF dest = END
                        THEN /\ messages' = MergeMessages(messages, r.update)
                             /\ next' = nxt
                             /\ step' = step + 1
                             /\ node' = "none"
                             /\ status' = "done"
                        ELSE IF dest \in Nodes
                        THEN /\ messages' = MergeMessages(messages, r.update)
                             /\ next' = nxt
                             /\ step' = step + 1
                             /\ node' = dest
                             /\ status' = IF OutOfSteps(step + 1)
                                          THEN "GraphRecursionError"
                                          ELSE "running"
                        ELSE \/ /\ messages' = MergeMessages(messages, r.update)
                                /\ next' = nxt
                                /\ step' = step + 1
                                /\ node' = "none"
                                /\ status' = "done"
                             \/ /\ status' = "InvalidUpdateError"
                                /\ UNCHANGED <<messages, next, node, step>>
    /\ UNCHANGED <<inner, innerPc, innerStep, requests, logged, transport,
                   lastCalls>>

\* The executor starts a worker node: the node calls its inner agent with
\* the state and the run's config (the budget included).
WorkerInvoke(w) ==
    /\ UNCHANGED <<ivars, cvars>>
    /\ status = "running"
    /\ node = w
    /\ innerPc = "idle"
    /\ innerPc' = "agent"
    /\ inner' = <<>>
    /\ innerStep' = 0
    /\ visited' = Append(visited, w)
    /\ requests' = 0
    /\ logged' = 0
    /\ lastCalls' = <<>>
    /\ UNCHANGED <<messages, next, node, status, step, decisions, llm, transport,
                   updates>>

\* The agent step of the inner ReAct loop: one LLM invocation over the
\* state's messages and the inner ones. An answer with tool calls leads to
\* the tools step (within the budget), one without ends the inner run.
InnerAgent(w) ==
    /\ UNCHANGED <<ivars, cvars>>
    /\ status = "running"
    /\ node = w
    /\ innerPc = "agent"
    /\ \E out \in AgentLLM :
         IF out = LLMFailure
         THEN /\ llm' = "fail"
              /\ status' = "LLMError"
              /\ UNCHANGED <<inner, innerPc, innerStep>>
         ELSE /\ llm' = "ok"
              /\ inner' = Append(inner, out)
              /\ innerStep' = innerStep + 1
              /\ IF out.tool_calls = 0
                 THEN innerPc' = "return" /\ status' = "running"
                 ELSE /\ innerPc' = "tools"
                      /\ status' = IF OutOfSteps(innerStep + 1)
                                   THEN "GraphRecursionError"
                                   ELSE "running"
    /\ lastCalls' = <<>>
    /\ UNCHANGED <<messages, next, node, step, visited, decisions, requests,
                   logged, transport, updates>>

\* The tools step of the inner loop: every tool call of the last AI message
\* is run, each gives one tool message, and the agent step is due again.
InnerTools(w) ==
    /\ UNCHANGED <<ivars, cvars>>
    /\ status = "running"
    /\ node = w
    /\ innerPc = "tools"
    /\ LET k == Last(inner).tool_calls IN
       \E calls \in [1..k -> ToolCallsOf(w)] :
         /\ inner' = inner \o ToolMessages(w, calls)
         /\ requests' = requests + SumRequests(w, calls, k)
         /\ logged' = logged + SumLogs(w, calls, k)
         /\ transport' = TransportAfter(transport, w, calls, k)
         /\ lastCalls' = calls
    /\ innerStep' = innerStep + 1
    /\ innerPc' = "agent"
    /\ status' = IF OutOfSteps(innerStep + 1) THEN "GraphRecursionError"
                 ELSE "running"
    /\ UNCHANGED <<messages, next, node, step, visited, decisions, llm, updates>>

\* The worker node returns: the last message of the inner result becomes one
\* HumanMessage, the update is merged, and the worker's edge leads back to
\* the supervisor (within the budget).
WorkerReturn(w) ==
    /\ UNCHANGED <<ivars, cvars>>
    /\ status = "running"
    /\ node = w
    /\ innerPc = "return"
    /\ LET update == NodeOf(w, messages \o inner) IN
         /\ messages' = MergeMessages(messages, update)
         /\ next' = MergeNext(next, update)
         /\ updates' = Append(updates, update)
    /\ step' = step + 1
    /\ node' = workerEdge(w)
    /\ status' = IF OutOfSteps(step + 1) THEN "GraphRecursionError" ELSE "running"
    /\ inner' = <<>>
    /\ innerPc' = "idle"
    /\ innerStep' = 0
    /\ requests' = 0
    /\ logged' = 0
    /\ lastCalls' = <<>>
    /\ UNCHANGED <<visited, decisions, llm, transport>>

Worker(w) ==
    \/ WorkerInvoke(w)
    \/ InnerAgent(w)
    \/ InnerTools(w)
    \/ WorkerReturn(w)

\* A run of the supervisor graph; the other program is not running.
Next ==
    \/ Supervisor
    \/ \E w \in members : Worker(w)

Spec == Init /\ [][Next]_allvars

\* The executor runs a due node; nothing else has to happen for a step.
FairSpec == Spec /\ WF_vars(Next)

---------------------------------------------------------------------------
(* The single-agent graph *)

\* The reducer of MessagesAnnotation: new messages go to the end.
messagesStateReducer(x, y) == x \o y

\* tools = [webSearchTool, getLocationInfo]: a tool call names its tool.
IntroCalls ==
    {[tool |-> "get_location_info", input |-> c.input, response |-> c.response] :
        c \in ToolCallsOf("tripadvisorApi")}
    \cup {[tool |-> "tavily_search", input |-> c.input, response |-> c.response] :
        c \in ToolCallsOf("researcher")}

IntroToolOf(call) ==
    IF call.tool = "get_location_info" THEN getLocationInfoTool(call)
    ELSE tavilyTool(call)

RECURSIVE IntroRequests(_, _)
IntroRequests(calls, k) ==
    IF k = 0 THEN 0 ELSE IntroToolOf(calls[k]).requests + IntroRequests(calls, k - 1)

\* toolNode: one tool message per tool call of the last message, in order.
toolNode(calls) ==
    [messages |-> [i \in DOMAIN calls |-> ToolMessage(IntroToolOf(calls[i]).returned)]]

\* callModel, after llmWithTools.invoke(messages) returned `result`.
callModel(result) == [messages |-> <<result>>]

\* A check that forgets the tool calls: every AI message goes to the tools.
shouldContinueAnyAI(msgs) ==
    LET lastMessage == msgs[Len(msgs)]
    IN  IF lastMessage.type # "ai" THEN END ELSE "tools"

\* shouldContinue: END unless the last message is an AI message with a
\* tool-call list that is there and not empty.
shouldContinue(msgs) ==
    LET lastMessage == msgs[Len(msgs)]
    IN  IF lastMessage.type # "ai" THEN END
        ELSE IF "tool_calls" \notin DOMAIN lastMessage THEN END
        ELSE IF lastMessage.tool_calls = 0 THEN END
        ELSE "tools"

\* A tools edge that ends the run.
toolsEdgeEnd == "end"

\* addEdge("tools", "agent")
toolsEdge == "agent"

\* One superstep of the agent node: the model is called, its answer is
\* appended, and shouldContinue names the destination.
Agent ==
    /\ UNCHANGED <<vars, cvars>>
    /\ istatus = "running"
    /\ ipc = "agent"
    /\ ivisited' = Append(ivisited, "agent")
    /\ icalls' = <<>>
    /\ irequests' = 0
    /\ \E out \in AgentLLM :
         IF out = LLMFailure
         THEN /\ istatus' = "LLMError"
              /\ UNCHANGED <<imessages, ipc, istep>>
         ELSE LET msgs == messagesStateReducer(imessages, callModel(out).messages)
                  dest == shouldContinue(msgs)
              IN  /\ imessages' = msgs
                  /\ istep' = istep + 1
                  /\ IF dest = END
                     THEN ipc' = "end" /\ istatus' = "done"
                     ELSE /\ ipc' = dest
                          /\ istatus' = IF OutOfSteps(istep + 1)
                                        THEN "GraphRecursionError"
                                        ELSE "running"

\* One superstep of the tools node: every tool call of the last message is
\* run, the tool messages are appended, and the edge leads to the agent.
Tools ==
    /\ UNCHANGED <<vars, cvars>>
    /\ istatus = "running"
    /\ ipc = "tools"
    /\ ivisited' = Append(ivisited, "tools")
    /\ LET k == Last(imessages).tool_calls IN
       \E calls \in [1..k -> IntroCalls] :
         /\ imessages' = messagesStateReducer(imessages, toolNode(calls).messages)
         /\ icalls' = calls
         /\ irequests' = IntroRequests(calls, k)
    /\ istep' = istep + 1
    /\ ipc' = toolsEdge
    /\ istatus' = IF ipc' = "end" THEN "done"
                  ELSE IF OutOfSteps(istep + 1) THEN "GraphRecursionError"
                  ELSE "running"

IntroNext ==
    \/ Agent
    \/ Tools

\* A run of the single-agent graph.
IntroSpec == Init /\ [][IntroNext]_allvars

\* The values a write to `next`, or the channel before it, can hold.
NextValues == {Absent} \cup options

\* One write to the channel: the reducer merges it into the value held.
Write(y) ==
    /\ UNCHANGED <<vars, ivars>>
    /\ Len(writes) < MaxWrites
    /\ chan' = nextReducer(chan, y)
    /\ writes' = Append(writes, y)

ReducerNext == \E y \in NextValues : Write(y)

\* The channel from any prior value, the unset one included.
ReducerInit ==
    /\ IntroInit
    /\ SupervisorInit
    /\ chan \in NextValues
    /\ writes = <<>>

\* The reducer applied from every prior value. The channel's own start is
\* the default; the other starts are the reducer's remaining inputs.
ReducerSpec == ReducerInit /\ [][ReducerNext]_allvars

\* A process runs one of the two programs.
RepoNext ==
    \/ ivisited = <<>> /\ Supervisor
    \/ \E w \in members : ivisited = <<>> /\ WorkerInvoke(w)
    \/ \E w \in members : ivisited = <<>> /\ InnerAgent(w)
    \/ \E w \in members : ivisited = <<>> /\ InnerTools(w)
    \/ \E w \in members : ivisited = <<>> /\ WorkerReturn(w)
    \/ visited = <<>> /\ Agent
    \/ visited = <<>> /\ Tools

RepoSpec == Init /\ [][RepoNext]_allvars

---------------------------------------------------------------------------
(* Properties *)

\* The supervisor invocations among the first i node invocations.
SupCount(i) == Cardinality({j \in 1..i : visited[j] = "supervisor"})

WorkerMessages == {i \in 1..Len(messages) : messages[i].name \in {"Researcher", "TripadvisorAPI"}}

\* C1 (P1, append-only): every step of a run leaves the messages that
\* existed before it as an unchanged prefix of `messages`; the log never
\* shrinks, and nothing in it is removed, replaced or reordered.
C1_AppendOnly ==
    [][Len(messages') >= Len(messages) /\ IsPrefix(messages, messages')]_vars

\* C1 witness: two workers have run and each has added to the log.
C1_Witness ==
    /\ Len(messages) = 3
    /\ SubSeq(messages, 1, 1) = Seed
    /\ status = "done"

\* C2 (P2, routing closure), as claimed: `next` always holds a declared
\* worker name or END, and a supervisor output outside that set aborts the
\* run with an error.
C2_RoutingClosure ==
    /\ next \in options
    /\ (decisions # <<>> /\ Last(decisions) \notin options) => status = "InvalidUpdateError"

\* C3 (P5, step budget): no node is invoked past the budget; the run is
\* given up with GraphRecursionError exactly when a node is due with the
\* budget used up (the outer graph's, or the inner agent's with the same
\* budget); a run never ends without error while a worker is due; and every
\* run ends.
C3_BudgetSafety ==
    /\ Len(visited) <= recursionLimit
    /\ step <= recursionLimit
    /\ innerStep <= recursionLimit
    /\ (step = recursionLimit /\ node # "none") => status = "GraphRecursionError"
    /\ (innerStep = recursionLimit /\ innerPc \in {"agent", "tools"})
          => status = "GraphRecursionError"
    /\ status = "GraphRecursionError"
          => \/ step = recursionLimit /\ node # "none" /\ innerPc = "idle"
             \/ innerStep = recursionLimit /\ innerPc \in {"agent", "tools"}
    /\ status = "done"
          => decisions # <<>> /\ Last(decisions) \notin members /\ node = "none"

C3_StepBudget == []C3_BudgetSafety /\ <>(status # "running")

\* C3 witness: the supervisor never chose END and the run was given up with
\* the outer budget used up.
C3_Witness ==
    /\ status = "GraphRecursionError"
    /\ innerPc = "idle"
    /\ step = recursionLimit
    /\ \A i \in 1..Len(decisions) : decisions[i] \in members

\* C4 (P4, immediate termination): when the supervisor's first decision is
\* END, the run has ended with exactly one supervisor invocation, no worker
\* invocation, and only the seed message in the state.
C4_ImmediateTermination ==
    (decisions # <<>> /\ decisions[1] = END)
        => /\ status = "done"
           /\ visited = <<"supervisor">>
           /\ decisions = <<END>>
           /\ messages = Seed

\* C4 witness: the supervisor chose END first.
C4_Witness == decisions = <<END>> /\ status = "done"

\* C5 (transition function): the first node is the supervisor; a node
\* invoked after a supervisor invocation is the one that invocation put in
\* `next`, and the run has ended when that was END; a node invoked after a
\* worker is the supervisor; a run never ends normally right after a worker.
C5_Transition ==
    /\ visited # <<>> => visited[1] = "supervisor"
    /\ visited = <<>> => node = "supervisor"
    /\ \A i \in 1..(Len(visited) - 1) :
         /\ visited[i] \in members => visited[i + 1] = "supervisor"
         /\ visited[i] = "supervisor"
              => /\ visited[i + 1] = decisions[SupCount(i)]
                 /\ visited[i + 1] \in members
    /\ (status = "running" /\ innerPc = "idle" /\ visited # <<>>)
          => IF Last(visited) \in members
             THEN node = "supervisor"
             ELSE node = next /\ node = Last(decisions) /\ node \in members
    /\ (decisions # <<>> /\ Last(decisions) = END) => status = "done"
    /\ status = "done" => Last(visited) = "supervisor"

\* C5 witness: supervisor, worker, supervisor, the other worker, supervisor.
C5_Witness ==
    /\ Len(visited) = 5
    /\ visited[2] \in members
    /\ visited[4] \in members
    /\ visited[2] # visited[4]
    /\ status = "done"


\* The tool messages a step added to the inner agent's messages.
NewInner == SubSeq(inner', Len(inner) + 1, Len(inner'))

ToolsStep(w) == node = w /\ innerPc = "tools" /\ innerPc' = "agent"

ReturnStep(w) == node = w /\ innerPc = "return" /\ innerPc' = "idle"

\* C6 (P3, graceful adapter failure): a tools step of tripadvisorApi in
\* which the transport fails raises nothing (the only abort it can meet is
\* the step budget), and feeds one empty result per failed call back to the
\* agent step; and a tripadvisorApi invocation all of whose requests failed
\* returns by adding exactly one message, its own, to the shared log.
C6_GracefulAdapterFailure ==
    [][/\ (ToolsStep("tripadvisorApi") /\ logged' > logged)
            => /\ status' \in {"running", "GraphRecursionError"}
               /\ status' = "GraphRecursionError" => innerStep' = recursionLimit
               /\ Len(NewInner) = Len(lastCalls')
               /\ \A i \in 1..Len(NewInner) :
                    lastCalls'[i].response = "fail" => NewInner[i] = ToolMessage("{}")
               /\ messages' = messages
       /\ (ReturnStep("tripadvisorApi") /\ logged > 0 /\ requests = logged)
            => /\ Len(messages') = Len(messages) + 1
               /\ IsPrefix(messages, messages')
               /\ Last(messages').name = "TripadvisorAPI"
               /\ status' \in {"running", "GraphRecursionError"}
               /\ status' = "GraphRecursionError" => step' = recursionLimit
      ]_vars

\* C6 witness: every request of the run to the location API failed, the
\* worker's message is in the log, and the run ended normally.
C6_Witness ==
    /\ transport = "fail"
    /\ status = "done"
    /\ \E i \in 1..Len(messages) : messages[i].name = "TripadvisorAPI"

\* C7 (worker output): a worker's return adds exactly one message to the
\* shared log, a HumanMessage under the worker's name whose content is that
\* of the last message of the inner result; no other step of a worker (its
\* agent steps, its tools steps) and no supervisor step adds anything.
C7_WorkerOutput ==
    [][/\ ReturnStep("researcher")
            => messages' = Append(messages, HumanMessage(Last(inner).content, "Researcher"))
       /\ ReturnStep("tripadvisorApi")
            => messages' = Append(messages, HumanMessage(Last(inner).content, "TripadvisorAPI"))
       /\ ~(\E w \in members : ReturnStep(w)) => messages' = messages
      ]_vars

\* C7 witness: a worker is about to return after two tool round-trips.
C7_Witness ==
    /\ innerPc = "return"
    /\ Len(inner) >= 5
    /\ status = "running"

\* C8 (terminal is absorbing): once the supervisor's decision is END the run
\* has ended, no node is due, and no step changes anything afterwards.
C8_EndDecided == decisions # <<>> /\ Last(decisions) = END

C8_TerminalAbsorbing ==
    /\ [](C8_EndDecided => status = "done" /\ node = "none" /\ next = END)
    /\ [][C8_EndDecided => UNCHANGED vars]_vars

\* C8 witness: END was decided after a worker had run.
C8_Witness == C8_EndDecided /\ Len(visited) = 3 /\ Len(messages) = 2

\* C9 (best-effort adapter): in a tools step of tripadvisorApi every call
\* that reaches the body of get_location_info issues exactly one request,
\* whether it succeeds or fails; a successful call returns the payload, a
\* failed one returns the empty record and is logged; no call raises.
C9_AdapterBestEffort ==
    [][ToolsStep("tripadvisorApi")
         => /\ Len(NewInner) = Len(lastCalls')
            /\ requests' - requests
                 = Cardinality({i \in 1..Len(lastCalls') : lastCalls'[i].response # "none"})
            /\ logged' - logged
                 = Cardinality({i \in 1..Len(lastCalls') : lastCalls'[i].response = "fail"})
            /\ \A i \in 1..Len(lastCalls') :
                 /\ lastCalls'[i].response = "ok" => NewInner[i] = ToolMessage("payload")
                 /\ lastCalls'[i].response = "fail" => NewInner[i] = ToolMessage("{}")
            /\ status' \in {"running", "GraphRecursionError"}
      ]_vars

\* C9 witness: within one worker invocation a call succeeded and a later
\* call failed; two requests went out and one error was logged.
C9_Witness ==
    /\ node = "tripadvisorApi"
    /\ lastCalls = <<[input |-> "229968", response |-> "fail"]>>
    /\ requests = 2
    /\ logged = 1

\* C10 (LLM failure is fatal): a failed LLM invocation, in the supervisor or
\* in a worker, aborts the run with that error; the failing step adds no
\* message and leaves `next` alone, and nothing happens afterwards.
C10_LLMFailureFatal ==
    /\ [](llm = "fail" => status = "LLMError")
    /\ [][llm' = "fail" => messages' = messages /\ next' = next /\ step' = step]_vars
    /\ [][status = "LLMError" => UNCHANGED vars]_vars

\* C10 witness: the LLM failed inside a worker after a tool round-trip.
C10_Witness ==
    /\ status = "LLMError"
    /\ llm = "fail"
    /\ node \in members
    /\ Len(inner) >= 2


\* The calls of the tools step just run whose identifier is in `bad`.
CallsWith(bad) == {i \in 1..Len(lastCalls') : lastCalls'[i].input \in bad}

\* C11 (adapter input validation), as claimed: a call of get_location_info
\* whose identifier is missing, is no string, or is the empty string fails
\* with an error before any request goes out, and fails only that call.
C11_InputValidation ==
    [][ToolsStep("tripadvisorApi")
         => /\ \A i \in CallsWith({"missing", "number", ""}) :
                 NewInner[i] = ToolMessage("Error")
            /\ requests' - requests
                 = Len(lastCalls') - Cardinality(CallsWith({"missing", "number", ""}))
            /\ status' \in {"running", "GraphRecursionError"}
      ]_vars

\* What holds of the declared schema: a call whose identifier is missing or
\* is no string is answered with an error and no request; the run goes on.
C11_SchemaFailFast ==
    [][ToolsStep("tripadvisorApi")
         => /\ \A i \in CallsWith({"missing", "number"}) :
                 NewInner[i] = ToolMessage("Error")
            /\ requests' - requests
                 = Len(lastCalls') - Cardinality(CallsWith({"missing", "number"}))
            /\ status' \in {"running", "GraphRecursionError"}
      ]_vars

\* The adapter calls a sequence of messages records: one tool message each.
AdapterCalls(ms) == Cardinality({i \in DOMAIN ms : ms[i].type = "tool"})

\* C12 (bounded worker reasoning), as claimed: within one worker invocation
\* the worker's adapter is called at most once before the final reply.
C12_AtMostOneAdapterCall == AdapterCalls(inner) <= 1

\* What holds of both graphs: adapter calls happen in tools steps only, and
\* a tools step follows an agent message that carries tool calls, answers
\* each of its calls once and hands over to the agent.
C12_ToolsStepPerToolCallMessage ==
    /\ [][\A w \in members :
            (node = w /\ AdapterCalls(inner') > AdapterCalls(inner))
              => /\ innerPc = "tools" /\ innerPc' = "agent"
                 /\ Last(inner).type = "ai"
                 /\ AdapterCalls(inner') - AdapterCalls(inner) = Last(inner).tool_calls
                 /\ Last(inner).tool_calls >= 1
         ]_allvars
    /\ [][AdapterCalls(imessages') > AdapterCalls(imessages)
            => /\ ipc = "tools" /\ ipc' = "agent"
               /\ Last(imessages).type = "ai"
               /\ AdapterCalls(imessages') - AdapterCalls(imessages)
                    = Last(imessages).tool_calls
               /\ Last(imessages).tool_calls >= 1
         ]_allvars

\* C13 (`next` is the supervisor's): only a supervisor step changes `next`;
\* a worker's update carries no `next`, so when the worker returns the field
\* still holds the supervisor's last decision, and the worker's successor is
\* the supervisor whatever `next` holds.
C13_NextOnlySupervisor ==
    /\ [][next' # next
            => node = "supervisor" /\ visited' = Append(visited, "supervisor")]_vars
    /\ [][\A w \in members :
            ReturnStep(w)
              => /\ "next" \notin DOMAIN Last(updates')
                 /\ next' = next
                 /\ next' = Last(decisions)
                 /\ node' = "supervisor"
         ]_vars

\* C13 witness: a worker has returned, `next` still names it, and the
\* supervisor is due.
C13_Witness ==
    /\ status = "running"
    /\ node = "supervisor"
    /\ innerPc = "idle"
    /\ visited # <<>>
    /\ Last(visited) \in members
    /\ next = Last(visited)

\* C14 (`next` reducer): a write of y over x leaves y when y is present,
\* else x when x is present, else END, for x and y over absent, researcher,
\* tripadvisorApi and END; the result is one present value; and before any
\* write the field of the graph's state holds END.
C14_NextReducer ==
    /\ [][writes' # writes
            => LET y == Last(writes')
               IN  /\ chan' = (IF y \in options THEN y
                               ELSE IF chan \in options THEN chan
                               ELSE END)
                   /\ chan' \in options
         ]_allvars
    /\ [](updates = <<>> => next = END)

\* C14 witness: an absent write over a present value, after a present write
\* over a value an absent write had left.
C14_Witness ==
    /\ writes = <<Absent, "researcher", Absent>>
    /\ chan = "researcher"

\* The messages the updates carry, in order.
RECURSIVE Contributions(_, _)
Contributions(ups, k) ==
    IF k = 0 THEN <<>>
    ELSE Contributions(ups, k - 1)
           \o (IF "messages" \in DOMAIN ups[k] THEN ups[k].messages ELSE <<>>)

\* C15 (strictly sequential execution): an inner agent runs only for the one
\* node the executor is running; and when a node is invoked no other node is
\* running, every earlier node has returned, and `messages` holds the seed
\* followed by everything the earlier nodes contributed.
C15_Sequential ==
    /\ [](innerPc # "idle" => node \in members /\ Last(visited) = node)
    /\ [][visited' # visited
            => /\ innerPc = "idle"
               /\ Len(updates) = Len(visited)
               /\ messages = Seed \o Contributions(updates, Len(updates))
               /\ visited' = Append(visited, node)
         ]_vars

\* C15 witness: the supervisor is invoked for the third time, after two
\* workers have contributed.
C15_Witness ==
    /\ SupCount(Len(visited)) = 3
    /\ Last(visited) = "supervisor"
    /\ Len(messages) = 3

\* The updates that were merged: a refused one is not.
Merged ==
    IF status = "InvalidUpdateError"
    THEN SubSeq(updates, 1, Len(updates) - 1)
    ELSE updates

\* The state the seed and the first k updates give.
RECURSIVE Replay(_, _)
Replay(ups, k) ==
    IF k = 0 THEN [messages |-> Seed, next |-> END]
    ELSE LET s == Replay(ups, k - 1)
             u == ups[k]
         IN  [messages |-> IF "messages" \in DOMAIN u
                           THEN s.messages \o u.messages ELSE s.messages,
              next |-> IF "next" \in DOMAIN u THEN u.next ELSE s.next]

\* The node due after the first k updates.
ReplayNode(ups, k) ==
    IF k = 0 THEN "supervisor"
    ELSE IF "next" \notin DOMAIN ups[k] THEN "supervisor"
    ELSE IF ups[k].next \in members THEN ups[k].next
    ELSE "none"

\* C16 (deterministic replay): every state of a run is the one the seed and
\* the node outputs so far determine: `messages`, `next`, the step count, the
\* node due and the sequence of nodes visited are functions of the outputs,
\* so two runs with the same outputs pass through the same states.
C16_DeterministicReplay ==
    /\ messages = Replay(Merged, Len(Merged)).messages
    /\ next = Replay(Merged, Len(Merged)).next
    /\ step = Len(Merged)
    /\ node = ReplayNode(Merged, Len(Merged))
    /\ \A i \in 1..Len(visited) : visited[i] = ReplayNode(updates, i - 1)

\* C16 witness: a finished run in which both workers produced output.
C16_Witness ==
    /\ status = "done"
    /\ Len(updates) = 5
    /\ \A w \in members : \E i \in 1..Len(visited) : visited[i] = w

\* C17 (shouldContinue): after an agent step the tools node is due exactly
\* when the last message is an AI message with at least one tool call, and
\* in every other case the run has ended; after a tools step the agent is due.
C17_ShouldContinue ==
    /\ [][(ipc = "agent" /\ imessages' # imessages)
            => LET lastMessage == Last(imessages')
               IN  /\ (ipc' = "tools")
                        <=> (lastMessage.type = "ai" /\ lastMessage.tool_calls >= 1)
                   /\ (ipc' # "tools") => (ipc' = "end" /\ istatus' = "done")
         ]_allvars
    /\ [][(ipc = "tools" /\ ivisited' # ivisited) => ipc' = "agent"]_allvars

\* C17 witness: the run ended on an agent reply without tool calls, after a
\* reply with tool calls had led through the tools node.
C17_Witness ==
    /\ istatus = "done"
    /\ ivisited = <<"agent", "tools", "agent">>
    /\ Last(imessages).tool_calls = 0

\* C18 (supervisor graph accounting): `messages` holds the seed and one
\* message per completed worker invocation, the supervisor adding none; the
\* supervisor has been invoked as often as the workers or once more, and once
\* more when the run has ended normally.
C18_Accounting ==
    /\ [](LET S == SupCount(Len(visited))
              W == Len(visited) - S
              completed == IF innerPc = "idle" THEN W ELSE W - 1
          IN  /\ Len(messages) = 1 + completed
              /\ S \in {W, W + 1}
              /\ status = "done" => S = W + 1)
    /\ [][node = "supervisor" => messages' = messages]_vars

\* C18 witness: a run that ended normally after two worker invocations.
C18_Witness ==
    /\ status = "done"
    /\ Len(messages) = 3
    /\ SupCount(Len(visited)) = 3

\* An agent reply that carries no tool calls.
FinalReply(m) == m.type = "ai" /\ m.tool_calls = 0

\* C19 (single-agent loop): the tools node is invoked only on an AI message
\* with tool calls; the run starts with the agent, alternates agent and
\* tools, and ends normally only directly after an agent step, exactly at
\* the first agent reply without tool calls; while every reply asks for
\* tools the run goes on until the step budget stops it.
C19_AgentToolsLoop ==
    /\ [][ivisited' = Append(ivisited, "tools")
            => Last(imessages).type = "ai" /\ Last(imessages).tool_calls >= 1]_allvars
    /\ [](\A i \in 1..Len(ivisited) :
            ivisited[i] = IF i % 2 = 1 THEN "agent" ELSE "tools")
    /\ [](istatus = "done" => Last(ivisited) = "agent")
    /\ [](istatus = "done" <=> \E i \in 1..Len(imessages) : FinalReply(imessages[i]))
    /\ [](\A i \in 1..(Len(imessages) - 1) : ~FinalReply(imessages[i]))
    /\ []((/\ \A i \in 1..Len(imessages) : ~FinalReply(imessages[i])
           /\ istatus # "LLMError"
           /\ ~OutOfSteps(istep))
          => istatus = "running")
    /\ [](istatus = "GraphRecursionError" => OutOfSteps(istep))

\* C19 witness: every reply asked for tools and the step budget ended the run.
C19_Witness ==
    /\ istatus = "GraphRecursionError"
    /\ \A i \in 1..Len(imessages) : ~FinalReply(imessages[i])
    /\ Len(ivisited) = recursionLimit

============================================================================
